---- MODULE Spec2Model ----
(***************************************************************************)
(* Model of src/app.py: the JSON extraction pipeline                       *)
(* (UniversalJSONExtractor), the API key store (APIKeyManager) and the     *)
(* HTTP handlers that combine them.                                        *)
(*                                                                         *)
(* Text is a sequence of one-character strings.  The markup of a script    *)
(* tag is carried by a few opaque characters ("<script>", "</script>",     *)
(* "<script type=", "application/ld+json", ">"): none of them is a brace,  *)
(* a bracket, a quote, a colon or JSON whitespace, which is all the        *)
(* regular expressions and the JSON grammar distinguish.                   *)
(***************************************************************************)
EXTENDS Integers, Sequences, FiniteSets, TLC

\* ------------------------------------------------------------------------
\* json.loads, over the alphabet of the model.  A parsed value is kept as
\* its compact serialisation (no whitespace, a repeated key keeps its first
\* position and its last value, as a Python dict does).
\* ------------------------------------------------------------------------

Quote == "\""

JsonWhitespace == {" "}

JsonDigits == {"1"}

ParseFail == [ok |-> FALSE, val |-> <<>>, pos |-> 0]

RECURSIVE SkipWs(_, _)
SkipWs(s, i) ==
    IF i <= Len(s) /\ s[i] \in JsonWhitespace THEN SkipWs(s, i + 1) ELSE i

\* the least j >= i with s[j] \in stop, Len(s)+1 when there is none
RECURSIVE ScanTo(_, _, _)
ScanTo(s, i, stop) ==
    IF i > Len(s) THEN Len(s) + 1
    ELSE IF s[i] \in stop THEN i
    ELSE ScanTo(s, i + 1, stop)

\* the least j >= i with s[j] \notin keep, Len(s)+1 when there is none
RECURSIVE ScanWhile(_, _, _)
ScanWhile(s, i, keep) ==
    IF i > Len(s) THEN Len(s) + 1
    ELSE IF s[i] \notin keep THEN i
    ELSE ScanWhile(s, i + 1, keep)

RECURSIVE PutMember(_, _, _)
PutMember(members, k, v) ==
    IF members = <<>> THEN << [k |-> k, v |-> v] >>
    ELSE IF Head(members).k = k THEN << [k |-> k, v |-> v] >> \o Tail(members)
    ELSE << Head(members) >> \o PutMember(Tail(members), k, v)

RECURSIVE DumpMembers(_)
DumpMembers(members) ==
    IF members = <<>> THEN <<>>
    ELSE Head(members).k \o <<":">> \o Head(members).v
         \o (IF Len(members) > 1 THEN <<",">> ELSE <<>>)
         \o DumpMembers(Tail(members))

RECURSIVE DumpElements(_)
DumpElements(elems) ==
    IF elems = <<>> THEN <<>>
    ELSE Head(elems)
         \o (IF Len(elems) > 1 THEN <<",">> ELSE <<>>)
         \o DumpElements(Tail(elems))

RECURSIVE ParseValue(_, _)
RECURSIVE ParseMembers(_, _, _)
RECURSIVE ParseElements(_, _, _)

\* s[i] is the first character of a value (the caller has skipped whitespace)
ParseValue(s, i) ==
    IF i > Len(s) THEN ParseFail
    ELSE IF s[i] = Quote THEN
        LET j == ScanTo(s, i + 1, {Quote})
        IN  IF j > Len(s) THEN ParseFail
            ELSE [ok |-> TRUE, val |-> SubSeq(s, i, j), pos |-> j + 1]
    ELSE IF s[i] \in JsonDigits THEN
        LET j == ScanWhile(s, i, JsonDigits)
        IN  [ok |-> TRUE, val |-> SubSeq(s, i, j - 1), pos |-> j]
    ELSE IF s[i] = "{" THEN
        LET k == SkipWs(s, i + 1)
        IN  IF k <= Len(s) /\ s[k] = "}"
            THEN [ok |-> TRUE, val |-> <<"{", "}">>, pos |-> k + 1]
            ELSE ParseMembers(s, k, <<>>)
    ELSE IF s[i] = "[" THEN
        LET k == SkipWs(s, i + 1)
        IN  IF k <= Len(s) /\ s[k] = "]"
            THEN [ok |-> TRUE, val |-> <<"[", "]">>, pos |-> k + 1]
            ELSE ParseElements(s, k, <<>>)
    ELSE ParseFail

\* s[i] must open the next key of an object whose earlier members are acc
ParseMembers(s, i, acc) ==
    IF i > Len(s) \/ s[i] # Quote THEN ParseFail
    ELSE
        LET j == ScanTo(s, i + 1, {Quote})
        IN  IF j > Len(s) THEN ParseFail
            ELSE
                LET c == SkipWs(s, j + 1)
                IN  IF c > Len(s) \/ s[c] # ":" THEN ParseFail
                    ELSE
                        LET r == ParseValue(s, SkipWs(s, c + 1))
                        IN  IF ~r.ok THEN ParseFail
                            ELSE
                                LET acc2 == PutMember(acc, SubSeq(s, i, j), r.val)
                                    e == SkipWs(s, r.pos)
                                IN  IF e > Len(s) THEN ParseFail
                                    ELSE IF s[e] = "}" THEN
                                        [ok |-> TRUE,
                                         val |-> <<"{">> \o DumpMembers(acc2) \o <<"}">>,
                                         pos |-> e + 1]
                                    ELSE IF s[e] = "," THEN
                                        ParseMembers(s, SkipWs(s, e + 1), acc2)
                                    ELSE ParseFail

\* s[i] must open the next element of an array whose earlier elements are acc
ParseElements(s, i, acc) ==
    LET r == ParseValue(s, i)
    IN  IF ~r.ok THEN ParseFail
        ELSE
            LET acc2 == Append(acc, r.val)
                e == SkipWs(s, r.pos)
            IN  IF e > Len(s) THEN ParseFail
                ELSE IF s[e] = "]" THEN
                    [ok |-> TRUE,
                     val |-> <<"[">> \o DumpElements(acc2) \o <<"]">>,
                     pos |-> e + 1]
                ELSE IF s[e] = "," THEN
                    ParseElements(s, SkipWs(s, e + 1), acc2)
                ELSE ParseFail

\* json.loads(s): [ok, val]; trailing text other than whitespace is an error
JsonLoads(s) ==
    LET r == ParseValue(s, SkipWs(s, 1))
    IN  IF r.ok /\ SkipWs(s, r.pos) > Len(s)
        THEN [ok |-> TRUE, val |-> r.val]
        ELSE [ok |-> FALSE, val |-> <<>>]

\* ------------------------------------------------------------------------
\* find_json_objects: re.findall of three patterns.  Every run between two
\* literals of a pattern excludes the very characters that delimit it, so a
\* match starting at i is decided by the next delimiters after i.
\* ------------------------------------------------------------------------

Braces == {"{", "}"}

Brackets == {"[", "]"}

\* r'\{[^{}]*\{[^{}]*\}[^{}]*\}': the index where a match starting at i
\* ends, 0 when there is none
MatchNested(s, i) ==
    IF i > Len(s) \/ s[i] # "{" THEN 0
    ELSE
        LET j1 == ScanTo(s, i + 1, Braces)
            j2 == ScanTo(s, j1 + 1, Braces)
            j3 == ScanTo(s, j2 + 1, Braces)
        IN  IF j3 <= Len(s) /\ s[j1] = "{" /\ s[j2] = "}" /\ s[j3] = "}"
            THEN j3 ELSE 0

\* r'\{[^{}]*"[^{}]*":[^{}]*\}[^{}]*'
MatchFlat(s, i) ==
    IF i > Len(s) \/ s[i] # "{" THEN 0
    ELSE
        LET j == ScanTo(s, i + 1, Braces)
        IN  IF j <= Len(s) /\ s[j] = "}"
               /\ \E p \in (i + 1)..(j - 1) : \E q \in (p + 1)..(j - 2) :
                     s[p] = Quote /\ s[q] = Quote /\ s[q + 1] = ":"
            THEN ScanTo(s, j + 1, Braces) - 1
            ELSE 0

\* r'\[[^\[\]]*\{[^\[\]]*\}[^\[\]]*\]'
MatchArray(s, i) ==
    IF i > Len(s) \/ s[i] # "[" THEN 0
    ELSE
        LET j == ScanTo(s, i + 1, Brackets)
        IN  IF j <= Len(s) /\ s[j] = "]"
               /\ \E p \in (i + 1)..(j - 1) : \E q \in (p + 1)..(j - 1) :
                     s[p] = "{" /\ s[q] = "}"
            THEN j ELSE 0

PatternNames == <<"nested", "flat", "array">>

MatchAt(pattern, s, i) ==
    CASE pattern = "nested" -> MatchNested(s, i)
      [] pattern = "flat"   -> MatchFlat(s, i)
      [] pattern = "array"  -> MatchArray(s, i)

\* re.findall(pattern, text): the non-overlapping matches, left to right
RECURSIVE FindAll(_, _, _)
FindAll(pattern, s, i) ==
    IF i > Len(s) THEN <<>>
    ELSE
        LET e == MatchAt(pattern, s, i)
        IN  IF e > 0
            THEN << SubSeq(s, i, e) >> \o FindAll(pattern, s, e + 1)
            ELSE FindAll(pattern, s, i + 1)

RECURSIVE FindPatterns(_, _)
FindPatterns(patterns, text) ==
    IF patterns = <<>> THEN <<>>
    ELSE FindAll(Head(patterns), text, 1) \o FindPatterns(Tail(patterns), text)

find_json_objects(text) == FindPatterns(PatternNames, text)

\* ------------------------------------------------------------------------
\* BeautifulSoup(html, 'html.parser').find_all('script'): the script
\* elements in document order, each with its type attribute and its text.
\* The text of a script element runs to the next closing tag whatever it
\* holds; an element with no text has string None (here the empty sequence).
\* ------------------------------------------------------------------------

ScriptOpen == "<script>"

ScriptOpenTyped == "<script type="

TagEnd == ">"

ScriptClose == "</script>"

LdJson == "application/ld+json"

\* the opening tag at s[i]: [len, type], len = 0 when s[i] opens no script
OpenTagAt(s, i) ==
    IF s[i] = ScriptOpen THEN [len |-> 1, type |-> "unknown"]
    ELSE IF /\ s[i] = ScriptOpenTyped
            /\ i + 4 <= Len(s)
            /\ s[i + 1] = Quote
            /\ s[i + 3] = Quote
            /\ s[i + 4] = TagEnd
         THEN [len |-> 5, type |-> s[i + 2]]
    ELSE [len |-> 0, type |-> "unknown"]

RECURSIVE ScriptsFrom(_, _)
ScriptsFrom(s, i) ==
    IF i > Len(s) THEN <<>>
    ELSE
        LET tag == OpenTagAt(s, i)
        IN  IF tag.len = 0 THEN ScriptsFrom(s, i + 1)
            ELSE
                LET c == i + tag.len
                    j == ScanTo(s, c, {ScriptClose})
                IN  << [type |-> tag.type, string |-> SubSeq(s, c, j - 1)] >>
                    \o ScriptsFrom(s, j + 1)

find_all_script(html) == ScriptsFrom(html, 1)

\* ------------------------------------------------------------------------
\* The extraction strategies
\* ------------------------------------------------------------------------

\* the candidates that json.loads accepts, each wrapped by wrap
RECURSIVE ParsedCandidates(_, _, _)
ParsedCandidates(cands, kind, script_type) ==
    IF cands = <<>> THEN <<>>
    ELSE
        LET r == JsonLoads(Head(cands))
            rest == ParsedCandidates(Tail(cands), kind, script_type)
        IN  IF ~r.ok THEN rest
            ELSE IF kind = "script_tag"
            THEN << [type |-> kind, data |-> r.val, script_type |-> script_type] >> \o rest
            ELSE << [type |-> kind, data |-> r.val] >> \o rest

RECURSIVE ScriptTagObjects(_)
ScriptTagObjects(scripts) ==
    IF scripts = <<>> THEN <<>>
    ELSE
        LET script == Head(scripts)
        IN  (IF script.string # <<>>
             THEN ParsedCandidates(find_json_objects(script.string),
                                   "script_tag", script.type)
             ELSE <<>>)
            \o ScriptTagObjects(Tail(scripts))

extract_json_from_script_tags(html_content) ==
    ScriptTagObjects(find_all_script(html_content))

RECURSIVE JsonLdObjects(_)
JsonLdObjects(scripts) ==
    IF scripts = <<>> THEN <<>>
    ELSE
        LET script == Head(scripts)
            r == JsonLoads(script.string)
        IN  (IF script.type = LdJson /\ script.string # <<>> /\ r.ok
             THEN << [type |-> "json_ld", data |-> r.val] >>
             ELSE <<>>)
            \o JsonLdObjects(Tail(scripts))

extract_json_ld(html_content) == JsonLdObjects(find_all_script(html_content))

extract_json_from_text(text) ==
    ParsedCandidates(find_json_objects(text), "text_pattern", "")

\* Python's None, for the fields that otherwise hold a string
None == "None"

\* Python's None, for the field that otherwise holds a parsed value
NoData == <<>>

\* 'application/json' in content_type, over the header values of the model
ContainsApplicationJson(content_type) ==
    content_type \in {"application/json", "application/json; charset=utf-8"}

\* urlparse(url) raises ValueError on a malformed URL (a URL with no scheme
\* is fetched as 'https://' + url; results['url'] keeps the URL as given)
UrlParseRaises(url) == ~url.well_formed

InitialResults(url) ==
    [success |-> FALSE, url |-> url, data |-> NoData, json_objects |-> <<>>,
     error |-> None, content_type |-> None, extraction_method |-> None]

\* UniversalJSONExtractor.extract_json_from_url.  resp is what
\* session.get(url) and raise_for_status() come to: outcome
\* "ok" with a content-type header and a body, or the RequestException
\* raised.  size_kb and timestamp are left out: nothing reads them.
NoStrategyMatched_Silent(r) == r

NoStrategyMatched(r) ==
    [r EXCEPT !.error = "No JSON data found in the provided URL"]

TryForcedJson(r, resp) ==
    LET forced == JsonLoads(resp.body)
    IN  IF forced.ok
        THEN [r EXCEPT !.data = forced.val,
                       !.json_objects = << [type |-> "forced_json", data |-> forced.val] >>,
                       !.extraction_method = "forced_json",
                       !.success = TRUE]
        ELSE NoStrategyMatched(r)

TryTextPatterns(r, resp) ==
    LET text_json_objects == extract_json_from_text(resp.body)
    IN  IF text_json_objects # <<>>
        THEN [r EXCEPT !.json_objects = text_json_objects,
                       !.extraction_method = "text_patterns",
                       !.success = TRUE]
        ELSE TryForcedJson(r, resp)

TryJsonLd(r, resp) ==
    LET json_ld_objects == extract_json_ld(resp.body)
    IN  IF json_ld_objects # <<>>
        THEN [r EXCEPT !.json_objects = json_ld_objects,
                       !.extraction_method = "json_ld",
                       !.success = TRUE]
        ELSE TryTextPatterns(r, resp)

TryScriptTags_LdFirst(r, resp) ==
    LET json_ld_objects == extract_json_ld(resp.body)
        json_objects == extract_json_from_script_tags(resp.body)
    IN  IF json_ld_objects # <<>>
        THEN [r EXCEPT !.json_objects = json_ld_objects,
                       !.extraction_method = "json_ld",
                       !.success = TRUE]
        ELSE IF json_objects # <<>>
        THEN [r EXCEPT !.json_objects = json_objects,
                       !.extraction_method = "script_tags",
                       !.success = TRUE]
        ELSE TryTextPatterns(r, resp)

TryScriptTags(r, resp) ==
    LET json_objects == extract_json_from_script_tags(resp.body)
    IN  IF json_objects # <<>>
        THEN [r EXCEPT !.json_objects = json_objects,
                       !.extraction_method = "script_tags",
                       !.success = TRUE]
        ELSE TryJsonLd(r, resp)

TryDirectJson(r, resp) ==
    LET direct == JsonLoads(resp.body)
    IN  IF ContainsApplicationJson(r.content_type) /\ direct.ok
        THEN [r EXCEPT !.data = direct.val,
                       !.json_objects = << [type |-> "direct_json", data |-> direct.val] >>,
                       !.extraction_method = "direct_json",
                       !.success = TRUE]
        ELSE TryScriptTags(r, resp)

extract_json_from_url(url, resp) ==
    LET r0 == InitialResults(url)
    IN  IF UrlParseRaises(url)
        THEN [r0 EXCEPT !.error = "Extraction error: ValueError"]
        ELSE IF resp.outcome = "connection_error"
        THEN [r0 EXCEPT !.error = "Failed to fetch the URL: ConnectionError"]
        ELSE IF resp.outcome = "http_error"
        THEN [r0 EXCEPT !.error = "Failed to fetch the URL: HTTPError"]
        ELSE TryDirectJson([r0 EXCEPT !.content_type = resp.content_type], resp)

\* ------------------------------------------------------------------------
\* The inputs of the extraction: URLs, and responses whose body is made of
\* at most MaxPieces pieces, a piece being a run of text or a whole script
\* element.
\* ------------------------------------------------------------------------

MaxPieces == 2

ObjA == <<"{", Quote, "a", Quote, ":", "1", "}">>

ObjNested ==
    <<"{", Quote, "x", Quote, ":", "{", Quote, "y", Quote, ":", "1", "}", "}">>

ObjUnquoted == <<"{", "a", ":", "{", "b", ":", "1", "}", "}">>

ArrOfObj == <<"[">> \o ObjA \o <<"]">>

ArrOfNum == <<"[", "1", "]">>

TextFragments ==
    {ObjA, ObjNested, ObjUnquoted, ArrOfObj, ArrOfNum,
     <<"h", "i">>, <<" ">>, <<"}">>, <<",">>}

ScriptTexts == {<<>>, ObjA, ObjNested, ObjUnquoted, ArrOfNum, <<"h", "i">>}

PlainScript(text) == <<ScriptOpen>> \o text \o <<ScriptClose>>

LdScript(text) ==
    <<ScriptOpenTyped, Quote, LdJson, Quote, TagEnd>> \o text \o <<ScriptClose>>

Pieces ==
    TextFragments \cup {PlainScript(t) : t \in ScriptTexts}
                  \cup {LdScript(t) : t \in ScriptTexts}

RECURSIVE BodiesOf(_)
BodiesOf(n) ==
    IF n = 0 THEN {<<>>}
    ELSE LET shorter == BodiesOf(n - 1)
         IN  shorter \cup {b \o p : b \in shorter, p \in Pieces}

ContentTypes ==
    {"application/json", "application/json; charset=utf-8", "text/html", ""}

Responses ==
    [outcome : {"ok"}, content_type : ContentTypes, body : BodiesOf(MaxPieces)]
    \cup [outcome : {"connection_error", "http_error"},
          content_type : {""}, body : {<<>>}]

GoodUrl == [scheme |-> "https", rest |-> "site/page", well_formed |-> TRUE]

\* the responses tried with every URL, the others being tried with GoodUrl
ShortResponses == {resp \in Responses : Len(resp.body) <= Len(ArrOfObj)}

Urls ==
    {GoodUrl,
     [scheme |-> "", rest |-> "site/page", well_formed |-> TRUE],
     [scheme |-> "http", rest |-> "[site/page", well_formed |-> FALSE]}

\* ------------------------------------------------------------------------
\* APIKeyManager.  api_keys maps a key to its record, usage_data maps a day
\* to a map from key to count; both are passed in and handed back, as the
\* methods read and update self.api_keys and self.usage_data.  A day is the
\* value of datetime.now().strftime('%Y-%m-%d'), numbered from 0; the
\* timestamps created_at and last_used are kept to the day.
\* ------------------------------------------------------------------------

FreeRequestsPerDay == 100

FreeRateLimit == 10

PremiumRequestsPerDay == 1000

PremiumRateLimit == 100

EnterpriseRequestsPerDay == 10000

EnterpriseRateLimit == 1000

PlanLimits(plan_type) ==
    CASE plan_type = "premium" ->
            [requests_per_day |-> PremiumRequestsPerDay, rate_limit |-> PremiumRateLimit]
      [] plan_type = "enterprise" ->
            [requests_per_day |-> EnterpriseRequestsPerDay, rate_limit |-> EnterpriseRateLimit]
      [] OTHER ->
            [requests_per_day |-> FreeRequestsPerDay, rate_limit |-> FreeRateLimit]

\* last_used of a key that was never used (None)
NeverUsed == -1

EmptyMap == [x \in {} |-> 0]

NewKeyData(user_email, api_key, plan_type, now) ==
    [user_email |-> user_email,
     api_key |-> api_key,
     plan_type |-> plan_type,
     requests_per_day |-> PlanLimits(plan_type).requests_per_day,
     rate_limit |-> PlanLimits(plan_type).rate_limit,
     created_at |-> now,
     is_active |-> TRUE,
     total_requests |-> 0,
     last_used |-> NeverUsed]

\* create_api_key, api_key being what generate_api_key() returned
create_api_key(keys, api_key, user_email, plan_type, now) ==
    IF api_key \in DOMAIN keys
    THEN [keys EXCEPT ![api_key] = NewKeyData(user_email, api_key, plan_type, now)]
    ELSE keys @@ (api_key :> NewKeyData(user_email, api_key, plan_type, now))

\* if today not in usage_data: usage_data[today] = {}
\* if api_key not in usage_data[today]: usage_data[today][api_key] = 0
EnsureEntry_Reset(usage, day, api_key) ==
    LET u1 == IF day \in DOMAIN usage THEN usage ELSE usage @@ (day :> EmptyMap)
    IN  IF api_key \in DOMAIN u1[day]
        THEN [u1 EXCEPT ![day][api_key] = 0]
        ELSE [u1 EXCEPT ![day] = @ @@ (api_key :> 0)]

EnsureEntry(usage, day, api_key) ==
    LET u1 == IF day \in DOMAIN usage THEN usage ELSE usage @@ (day :> EmptyMap)
    IN  IF api_key \in DOMAIN u1[day]
        THEN u1
        ELSE [u1 EXCEPT ![day] = @ @@ (api_key :> 0)]

\* validate_api_key: [ok, message, key_data, usage_data]; the code returns
\* (True, key_data) or (False, message)
validate_api_key_LimitFirst(keys, usage, day, api_key) ==
    IF api_key \notin DOMAIN keys
    THEN [ok |-> FALSE, message |-> "Invalid API key", key_data |-> EmptyMap,
          usage_data |-> usage]
    ELSE LET u2 == EnsureEntry(usage, day, api_key)
         IN  IF u2[day][api_key] >= keys[api_key].requests_per_day
             THEN [ok |-> FALSE, message |-> "Daily request limit exceeded",
                   key_data |-> EmptyMap, usage_data |-> u2]
             ELSE IF ~keys[api_key].is_active
             THEN [ok |-> FALSE, message |-> "API key is inactive", key_data |-> EmptyMap,
                   usage_data |-> u2]
             ELSE [ok |-> TRUE, message |-> None, key_data |-> keys[api_key],
                   usage_data |-> u2]

validate_api_key_Lifetime(keys, usage, day, api_key) ==
    IF api_key \notin DOMAIN keys
    THEN [ok |-> FALSE, message |-> "Invalid API key", key_data |-> EmptyMap,
          usage_data |-> usage]
    ELSE IF ~keys[api_key].is_active
    THEN [ok |-> FALSE, message |-> "API key is inactive", key_data |-> EmptyMap,
          usage_data |-> usage]
    ELSE LET u2 == EnsureEntry(usage, day, api_key)
         IN  IF keys[api_key].total_requests >= keys[api_key].requests_per_day
             THEN [ok |-> FALSE, message |-> "Daily request limit exceeded",
                   key_data |-> EmptyMap, usage_data |-> u2]
             ELSE [ok |-> TRUE, message |-> None, key_data |-> keys[api_key],
                   usage_data |-> u2]

validate_api_key(keys, usage, day, api_key) ==
    IF api_key \notin DOMAIN keys
    THEN [ok |-> FALSE, message |-> "Invalid API key", key_data |-> EmptyMap,
          usage_data |-> usage]
    ELSE IF ~keys[api_key].is_active
    THEN [ok |-> FALSE, message |-> "API key is inactive", key_data |-> EmptyMap,
          usage_data |-> usage]
    ELSE LET u2 == EnsureEntry(usage, day, api_key)
         IN  IF u2[day][api_key] >= keys[api_key].requests_per_day
             THEN [ok |-> FALSE, message |-> "Daily request limit exceeded",
                   key_data |-> EmptyMap, usage_data |-> u2]
             ELSE [ok |-> TRUE, message |-> None, key_data |-> keys[api_key],
                   usage_data |-> u2]

\* record_usage, for a key of the store: [api_keys, usage_data]
record_usage_NoTotal(keys, usage, day, api_key) ==
    LET u2 == EnsureEntry(usage, day, api_key)
    IN  [usage_data |-> [u2 EXCEPT ![day][api_key] = @ + 1],
         api_keys |-> [keys EXCEPT ![api_key].last_used = day]]

record_usage(keys, usage, day, api_key) ==
    LET u2 == EnsureEntry(usage, day, api_key)
    IN  [usage_data |-> [u2 EXCEPT ![day][api_key] = @ + 1],
         api_keys |-> [keys EXCEPT ![api_key].total_requests = @ + 1,
                                   ![api_key].last_used = day]]

\* usage_data.get(day, {}).get(api_key, 0)
UsageCount(usage, day, api_key) ==
    IF day \in DOMAIN usage /\ api_key \in DOMAIN usage[day]
    THEN usage[day][api_key] ELSE 0

\* get_key_stats: [found, stats]; found is FALSE where the code returns None
get_key_stats(keys, usage, day, api_key) ==
    IF api_key \notin DOMAIN keys
    THEN [found |-> FALSE, stats |-> EmptyMap]
    ELSE [found |-> TRUE,
          stats |-> [api_key |-> api_key,
                     user_email |-> keys[api_key].user_email,
                     plan_type |-> keys[api_key].plan_type,
                     today_usage |-> UsageCount(usage, day, api_key),
                     daily_limit |-> keys[api_key].requests_per_day,
                     total_requests |-> keys[api_key].total_requests,
                     last_used |-> keys[api_key].last_used,
                     created_at |-> keys[api_key].created_at]]

\* ------------------------------------------------------------------------
\* The HTTP handlers.  A reply is what the caller gets back: the operation,
\* the key presented, the status, the error message (None when there is
\* none) and the data returned, if any (the extraction result, the stats,
\* the key's record).  The manager's methods reply the same way with
\* status 0 (no HTTP).
\* ------------------------------------------------------------------------

\* no X-API-Key and no Authorization header: api_key is ''
NoKey == ""

\* a request whose JSON body has no 'url' (or an empty one)
NoUrl == [scheme |-> "", rest |-> "", well_formed |-> TRUE]

Reply(op, key, ok, status, error) ==
    [op |-> op, key |-> key, ok |-> ok, status |-> status, error |-> error,
     data |-> EmptyMap]

\* return jsonify(result): the reply that carries an extraction result
ResultReply(op, key, result) ==
    [Reply(op, key, result.success, 200, None) EXCEPT !.data = result]

\* api_extract_json: [api_keys, usage_data, reply].  payload is the JSON
\* body of the request ([has_data, url]), resp what the fetch comes to.
api_extract_json(keys, usage, day, api_key, payload, resp) ==
    IF api_key = NoKey
    THEN [api_keys |-> keys, usage_data |-> usage,
          reply |-> Reply("api_extract", api_key, FALSE, 401, "API key required")]
    ELSE
        LET v == validate_api_key(keys, usage, day, api_key)
        IN  IF ~v.ok
            THEN [api_keys |-> keys, usage_data |-> v.usage_data,
                  reply |-> Reply("api_extract", api_key, FALSE, 401, v.message)]
            ELSE IF ~payload.has_data
            THEN [api_keys |-> keys, usage_data |-> v.usage_data,
                  reply |-> Reply("api_extract", api_key, FALSE, 400, "JSON data required")]
            ELSE IF payload.url = NoUrl
            THEN [api_keys |-> keys, usage_data |-> v.usage_data,
                  reply |-> Reply("api_extract", api_key, FALSE, 400,
                                  "URL parameter required")]
            ELSE
                LET rec == record_usage(keys, v.usage_data, day, api_key)
                IN  [api_keys |-> rec.api_keys, usage_data |-> rec.usage_data,
                     reply |-> ResultReply("api_extract", api_key,
                                           extract_json_from_url(payload.url, resp))]

\* api_get_stats: the reply (the store is only read)
api_get_stats_Validated(keys, usage, day, api_key) ==
    IF api_key = NoKey
    THEN Reply("api_stats", api_key, FALSE, 401, "API key required")
    ELSE
        LET v == validate_api_key(keys, usage, day, api_key)
            st == get_key_stats(keys, usage, day, api_key)
        IN  IF v.ok
            THEN [Reply("api_stats", api_key, TRUE, 200, None) EXCEPT !.data = st.stats]
            ELSE Reply("api_stats", api_key, FALSE, 401, v.message)

api_get_stats(keys, usage, day, api_key) ==
    IF api_key = NoKey
    THEN Reply("api_stats", api_key, FALSE, 401, "API key required")
    ELSE
        LET st == get_key_stats(keys, usage, day, api_key)
        IN  IF st.found
            THEN [Reply("api_stats", api_key, TRUE, 200, None) EXCEPT !.data = st.stats]
            ELSE Reply("api_stats", api_key, FALSE, 401, "Invalid API key")

\* key_stats: the same lookup, answered 200 either way
key_stats(keys, usage, day, api_key) ==
    LET st == get_key_stats(keys, usage, day, api_key)
    IN  IF st.found
        THEN [Reply("key_stats", api_key, TRUE, 200, None) EXCEPT !.data = st.stats]
        ELSE Reply("key_stats", api_key, FALSE, 200, "Invalid API key")

\* public_extract_json: the reply (no key, no store)
public_extract_json(payload, resp) ==
    IF ~payload.has_data
    THEN Reply("public_extract", NoKey, FALSE, 400, "JSON data required")
    ELSE IF payload.url = NoUrl
    THEN Reply("public_extract", NoKey, FALSE, 400, "URL parameter required")
    ELSE ResultReply("public_extract", NoKey, extract_json_from_url(payload.url, resp))

\* ------------------------------------------------------------------------
\* The inputs of the store and of the handlers
\* ------------------------------------------------------------------------

\* the last day of the model
MaxDay == 1

\* a key is followed from 0 to MaxCalls uses a day, and from MaxCalls uses
\* below its daily limit to MaxCalls uses above it
MaxCalls == 2

\* the keys generate_api_key() can return
Keys == {"api_k1"}

PresentedKeys == Keys \cup {NoKey, "api_unknown"}

PlanTypes == {"free", "premium", "gold"}

Payloads ==
    {[has_data |-> FALSE, url |-> NoUrl],
     [has_data |-> TRUE, url |-> NoUrl],
     [has_data |-> TRUE, url |-> GoodUrl]}

\* a JSON API, a page with no JSON in it, a host that does not answer
HandlerResponses ==
    {[outcome |-> "ok", content_type |-> "application/json", body |-> ObjA],
     [outcome |-> "ok", content_type |-> "text/html", body |-> <<"h", "i">>],
     [outcome |-> "connection_error", content_type |-> "", body |-> <<>>]}

\* the record of api_k1 in api_keys.json when the server starts: a free key
\* used `used` times today
StoredKey(active, used) ==
    [NewKeyData("user@example.com", "api_k1", "free", 0)
        EXCEPT !.is_active = active,
               !.total_requests = used,
               !.last_used = IF used > 0 THEN 0 ELSE NeverUsed]

StartUsages ==
    {0} \cup ((FreeRequestsPerDay - MaxCalls)..FreeRequestsPerDay)

\* whether the model follows one more use of the key on this day
CanRecord(keys, usage, day, api_key) ==
    LET c == UsageCount(usage, day, api_key)
        lim == keys[api_key].requests_per_day
    IN  \/ c < MaxCalls
        \/ (c >= lim - MaxCalls /\ c < lim + MaxCalls)

\* the requests the threaded server handles at the same time
NumThreads == 2

Threads == 1..NumThreads

\* a request of api_extract_json that has not arrived yet
IdleRequest ==
    [pc |-> "idle", api_key |-> NoKey, payload |-> [has_data |-> FALSE, url |-> NoUrl],
     is_valid |-> FALSE, extracted |-> FALSE, success |-> FALSE,
     day |-> 0, loaded |-> 0, calls |-> 0, status |-> 0, error |-> None]

VARIABLES req_url, response, results, xpc, api_keys, usage_data, today, reply, req

xvars == <<req_url, response, results, xpc>>

svars == <<api_keys, usage_data, today, reply>>

vars == <<req_url, response, results, xpc, api_keys, usage_data, today, reply, req>>

\* --- the extraction alone -----------------------------------------------

XInit ==
    /\ req_url \in Urls
    /\ response \in (IF req_url = GoodUrl THEN Responses ELSE ShortResponses)
    /\ results = InitialResults(req_url)
    /\ xpc = "start"
    /\ api_keys = EmptyMap
    /\ usage_data = EmptyMap
    /\ today = 0
    /\ reply = Reply("none", NoKey, FALSE, 0, None)
    /\ req = [t \in Threads |-> IdleRequest]

ExtractCall ==
    /\ xpc = "start"
    /\ results' = extract_json_from_url(req_url, response)
    /\ xpc' = "done"
    /\ UNCHANGED <<req_url, response, req>>
    /\ UNCHANGED svars

XNext == ExtractCall

SpecExtract == XInit /\ [][XNext]_vars

\* --- the store and the handlers, one call at a time -----------------------

Init ==
    /\ req_url = GoodUrl
    /\ response = [outcome |-> "connection_error", content_type |-> "", body |-> <<>>]
    /\ results = InitialResults(GoodUrl)
    /\ xpc = "idle"
    /\ today = 0
    /\ reply = Reply("none", NoKey, FALSE, 0, None)
    /\ req = [t \in Threads |-> IdleRequest]
    /\ \/ api_keys = EmptyMap /\ usage_data = EmptyMap
       \/ \E active \in BOOLEAN, used \in StartUsages :
            /\ api_keys = ("api_k1" :> StoredKey(active, used))
            /\ usage_data = IF used = 0 THEN EmptyMap
                            ELSE (0 :> ("api_k1" :> used))

\* generate_key: generate_api_key() returns a key not issued before
CreateKey(api_key, plan_type) ==
    /\ api_key \in Keys \ DOMAIN api_keys
    /\ api_keys' = create_api_key(api_keys, api_key, "user@example.com", plan_type, today)
    /\ reply' = Reply("create_key", api_key, TRUE, 200, None)
    /\ UNCHANGED <<usage_data, today>>
    /\ UNCHANGED <<xvars, req>>

Validate(api_key) ==
    LET v == validate_api_key(api_keys, usage_data, today, api_key)
    IN  /\ usage_data' = v.usage_data
        /\ reply' = [Reply("validate", api_key, v.ok, 0, v.message)
                        EXCEPT !.data = v.key_data]
        /\ UNCHANGED <<api_keys, today>>
        /\ UNCHANGED <<xvars, req>>

RecordUsage(api_key) ==
    /\ api_key \in DOMAIN api_keys
    /\ CanRecord(api_keys, usage_data, today, api_key)
    /\ LET rec == record_usage(api_keys, usage_data, today, api_key)
       IN  /\ api_keys' = rec.api_keys
           /\ usage_data' = rec.usage_data
    /\ reply' = Reply("record_usage", api_key, TRUE, 0, None)
    /\ UNCHANGED today
    /\ UNCHANGED <<xvars, req>>

KeyStats(api_key) ==
    /\ reply' = key_stats(api_keys, usage_data, today, api_key)
    /\ UNCHANGED <<api_keys, usage_data, today>>
    /\ UNCHANGED <<xvars, req>>

ApiExtract(api_key, payload, resp) ==
    \E out \in {api_extract_json(api_keys, usage_data, today, api_key, payload, resp)} :
        /\ out.reply.status = 200 =>
              CanRecord(api_keys, usage_data, today, api_key)
        /\ api_keys' = out.api_keys
        /\ usage_data' = out.usage_data
        /\ reply' = out.reply
        /\ UNCHANGED today
        /\ UNCHANGED <<xvars, req>>

ApiStats(api_key) ==
    /\ reply' = api_get_stats(api_keys, usage_data, today, api_key)
    /\ UNCHANGED <<api_keys, usage_data, today>>
    /\ UNCHANGED <<xvars, req>>

PublicExtract(payload, resp) ==
    /\ reply' = public_extract_json(payload, resp)
    /\ UNCHANGED <<api_keys, usage_data, today>>
    /\ UNCHANGED <<xvars, req>>

\* midnight passes
Tick ==
    /\ today < MaxDay
    /\ today' = today + 1
    /\ reply' = Reply("none", NoKey, FALSE, 0, None)
    /\ UNCHANGED <<api_keys, usage_data>>
    /\ UNCHANGED <<xvars, req>>

Next ==
    \/ \E k \in Keys, plan \in PlanTypes : CreateKey(k, plan)
    \/ \E k \in PresentedKeys \ {NoKey} : Validate(k)
    \/ \E k \in Keys : RecordUsage(k)
    \/ \E k \in PresentedKeys : KeyStats(k)
    \/ \E k \in PresentedKeys, payload \in Payloads, resp \in HandlerResponses :
          ApiExtract(k, payload, resp)
    \/ \E k \in PresentedKeys : ApiStats(k)
    \/ \E payload \in Payloads, resp \in HandlerResponses : PublicExtract(payload, resp)
    \/ Tick

Spec == Init /\ [][Next]_vars

\* --- api_extract_json under the threaded server ---------------------------
\* app.run serves every request on a thread of its own; the threads share
\* the manager.  A request runs from one access of the shared store to the
\* next; usage_data[today][api_key] += 1 and total_requests += 1 are each a
\* load followed by a store.

ConcInit ==
    /\ req_url = GoodUrl
    /\ response = [outcome |-> "connection_error", content_type |-> "", body |-> <<>>]
    /\ results = InitialResults(GoodUrl)
    /\ xpc = "idle"
    /\ today = 0
    /\ reply = Reply("none", NoKey, FALSE, 0, None)
    /\ req = [t \in Threads |-> IdleRequest]
    /\ \E used \in StartUsages :
          /\ api_keys = ("api_k1" :> StoredKey(TRUE, used))
          /\ usage_data = IF used = 0 THEN EmptyMap
                          ELSE (0 :> ("api_k1" :> used))

Finish(r, status, error) ==
    [r EXCEPT !.pc = "done", !.status = status, !.error = error]

\* the request arrives; a request with no key is answered at once
Receive(t, api_key, payload) ==
    /\ req[t].pc = "idle"
    /\ LET r == [req[t] EXCEPT !.api_key = api_key, !.payload = payload]
       IN  req' = [req EXCEPT ![t] =
                      IF api_key = NoKey
                      THEN Finish(r, 401, "API key required")
                      ELSE [r EXCEPT !.pc = "validate"]]
    /\ UNCHANGED <<xvars, svars>>

\* validate_api_key, then the checks of the request's own body
AfterValidate(r) ==
    IF ~r.payload.has_data THEN Finish(r, 400, "JSON data required")
    ELSE IF r.payload.url = NoUrl THEN Finish(r, 400, "URL parameter required")
    ELSE [r EXCEPT !.pc = "extract"]

DoValidate(t) ==
    /\ req[t].pc = "validate"
    /\ LET v == validate_api_key(api_keys, usage_data, today, req[t].api_key)
       IN  /\ usage_data' = v.usage_data
           /\ req' = [req EXCEPT ![t] =
                         IF ~v.ok THEN Finish(@, 401, v.message)
                         ELSE AfterValidate([@ EXCEPT !.is_valid = TRUE])]
    /\ UNCHANGED <<xvars, api_keys, today, reply>>

\* extractor.extract_json_from_url(url): the fetch and the strategies
AfterExtract_BillOnSuccess(r, result) ==
    IF result.success
    THEN [r EXCEPT !.extracted = TRUE, !.success = result.success, !.pc = "record"]
    ELSE Finish([r EXCEPT !.extracted = TRUE, !.success = result.success], 200, None)

AfterExtract(r, result) ==
    [r EXCEPT !.extracted = TRUE, !.success = result.success, !.pc = "record"]

DoExtract(t, resp) ==
    /\ req[t].pc = "extract"
    /\ req' = [req EXCEPT ![t] =
                  AfterExtract(@, extract_json_from_url(@.payload.url, resp))]
    /\ UNCHANGED <<xvars, svars>>

\* record_usage: today is read, the entry is made sure of, the count loaded
RecordLoadUsage(t) ==
    /\ req[t].pc = "record"
    /\ LET u2 == EnsureEntry(usage_data, today, req[t].api_key)
       IN  /\ usage_data' = u2
           /\ req' = [req EXCEPT ![t].day = today,
                                 ![t].loaded = u2[today][req[t].api_key],
                                 ![t].calls = @ + 1,
                                 ![t].pc = "store_usage"]
    /\ UNCHANGED <<xvars, api_keys, today, reply>>

RecordStoreUsage(t) ==
    /\ req[t].pc = "store_usage"
    /\ usage_data' = [usage_data EXCEPT ![req[t].day][req[t].api_key] = req[t].loaded + 1]
    /\ req' = [req EXCEPT ![t].pc = "load_total"]
    /\ UNCHANGED <<xvars, api_keys, today, reply>>

RecordLoadTotal(t) ==
    /\ req[t].pc = "load_total"
    /\ req' = [req EXCEPT ![t].loaded = api_keys[req[t].api_key].total_requests,
                          ![t].pc = "store_total"]
    /\ UNCHANGED <<xvars, svars>>

\* the rest of record_usage (last_used; both files are saved), and the reply
RecordStoreTotal(t) ==
    /\ req[t].pc = "store_total"
    /\ api_keys' = [api_keys EXCEPT
                       ![req[t].api_key].total_requests = req[t].loaded + 1,
                       ![req[t].api_key].last_used = today]
    /\ req' = [req EXCEPT ![t] = Finish(@, 200, None)]
    /\ UNCHANGED <<xvars, usage_data, today, reply>>

ConcTick ==
    /\ today < MaxDay
    /\ today' = today + 1
    /\ UNCHANGED <<xvars, api_keys, usage_data, reply, req>>

ConcNext ==
    \/ \E t \in Threads, k \in PresentedKeys, payload \in Payloads :
          Receive(t, k, payload)
    \/ \E t \in Threads : DoValidate(t)
    \/ \E t \in Threads, resp \in HandlerResponses : DoExtract(t, resp)
    \/ \E t \in Threads : RecordLoadUsage(t)
    \/ \E t \in Threads : RecordStoreUsage(t)
    \/ \E t \in Threads : RecordLoadTotal(t)
    \/ \E t \in Threads : RecordStoreTotal(t)
    \/ ConcTick

SpecConc == ConcInit /\ [][ConcNext]_vars

\* ------------------------------------------------------------------------
\* Properties of the extraction
\* ------------------------------------------------------------------------

StrategyOrder ==
    <<"direct_json", "script_tags", "json_ld", "text_patterns", "forced_json">>

\* what one strategy, taken alone, recovers from a fetched response
StrategyYield(name, resp) ==
    CASE name = "direct_json" ->
            IF ContainsApplicationJson(resp.content_type) /\ JsonLoads(resp.body).ok
            THEN << [type |-> "direct_json", data |-> JsonLoads(resp.body).val] >>
            ELSE <<>>
      [] name = "script_tags" -> extract_json_from_script_tags(resp.body)
      [] name = "json_ld" -> extract_json_ld(resp.body)
      [] name = "text_patterns" -> extract_json_from_text(resp.body)
      [] name = "forced_json" ->
            IF JsonLoads(resp.body).ok
            THEN << [type |-> "forced_json", data |-> JsonLoads(resp.body).val] >>
            ELSE <<>>

Fetched ==
    xpc = "done" /\ ~UrlParseRaises(req_url) /\ response.outcome = "ok"

\* C1: for a fetched response the method is the earliest strategy of the
\* fixed order that yields an object, and the objects of the result are
\* exactly that strategy's objects (nothing merged from a later one); when
\* no strategy yields anything there is no method and no object.
C1_EarliestStrategyWins ==
    Fetched =>
        LET yielding == {i \in 1..Len(StrategyOrder) :
                            StrategyYield(StrategyOrder[i], response) # <<>>}
        IN  IF yielding = {}
            THEN results.extraction_method = None /\ results.json_objects = <<>>
            ELSE LET first == CHOOSE i \in yielding : \A j \in yielding : i <= j
                 IN  /\ results.extraction_method = StrategyOrder[first]
                     /\ results.json_objects
                            = StrategyYield(StrategyOrder[first], response)

\* a fetched page on which script_tags wins although json_ld and
\* text_patterns would yield objects too
C1_Witness ==
    /\ Fetched
    /\ results.extraction_method = "script_tags"
    /\ extract_json_ld(response.body) # <<>>
    /\ extract_json_from_text(response.body) # <<>>
    /\ \A i \in 1..Len(results.json_objects) :
          results.json_objects[i].type = "script_tag"

\* C6: every call returns a result in which error is set exactly when
\* success is false; a failed result has no method and no object, a
\* successful one names a strategy and holds at least one object.
C6_WellFormedResult ==
    xpc = "done" =>
        /\ results.success \in BOOLEAN
        /\ (results.error # None) <=> ~results.success
        /\ ~results.success =>
              results.extraction_method = None /\ results.json_objects = <<>>
        /\ results.success =>
              /\ \E i \in 1..Len(StrategyOrder) :
                    results.extraction_method = StrategyOrder[i]
              /\ results.json_objects # <<>>

\* a fetched response in which no strategy finds anything
C6_Witness ==
    /\ Fetched
    /\ ~results.success
    /\ results.error = "No JSON data found in the provided URL"

\* the page of C7: one JSON-LD script element holding {"a":1}
JsonLdDocument == LdScript(ObjA)

\* C7: a non-JSON response whose body is
\* <script type="application/ld+json">{"a":1}</script> gives method json_ld
\* with exactly one object, of kind json_ld, whose payload is {a:1}.
C7_JsonLdDocumentGivesJsonLd ==
    (/\ Fetched
     /\ ~ContainsApplicationJson(response.content_type)
     /\ response.body = JsonLdDocument)
    => /\ results.extraction_method = "json_ld"
       /\ Len(results.json_objects) = 1
       /\ results.json_objects[1].type = "json_ld"
       /\ results.json_objects[1].data = ObjA

\* ------------------------------------------------------------------------
\* Properties of the key store and of the handlers.  In Spec the reply is
\* always the reply of the call that led to the current state.
\* ------------------------------------------------------------------------

RECURSIVE SumOverDays(_, _, _)
SumOverDays(usage, days, api_key) ==
    IF days = {} THEN 0
    ELSE LET d == CHOOSE x \in days : TRUE
         IN  UsageCount(usage, d, api_key) + SumOverDays(usage, days \ {d}, api_key)

\* the sum over all days of the key's ledger entries
LedgerTotal(usage, api_key) == SumOverDays(usage, DOMAIN usage, api_key)

UsedToday(api_key) == UsageCount(usage_data, today, api_key)

DailyLimit(api_key) == api_keys[api_key].requests_per_day

\* C3: a validate of an active key fails with "Daily request limit
\* exceeded" when the key's count for the current day has reached its
\* daily limit and succeeds when it has not, whatever the counts of other
\* days; the ledger holds no count for a day that has not come, so the
\* count of a key starts from zero when the day changes.
C3_DailyLimitIsPerDay ==
    /\ \A d \in DOMAIN usage_data : d <= today
    /\ (/\ reply.op = "validate"
        /\ reply.key \in DOMAIN api_keys
        /\ api_keys[reply.key].is_active)
       => IF UsedToday(reply.key) >= DailyLimit(reply.key)
          THEN ~reply.ok /\ reply.error = "Daily request limit exceeded"
          ELSE reply.ok

\* a validate that succeeds on the day after the key used up its quota
C3_Witness ==
    /\ reply.op = "validate"
    /\ reply.ok
    /\ today > 0
    /\ UsageCount(usage_data, today - 1, reply.key) >= DailyLimit(reply.key)

\* C4: validate returns the first reason that applies, in the order unknown
\* key, inactive key, daily limit reached; otherwise it succeeds and returns
\* the key's record.
C4_ValidateReasonOrder ==
    reply.op = "validate" =>
        IF reply.key \notin DOMAIN api_keys
        THEN ~reply.ok /\ reply.error = "Invalid API key"
        ELSE IF ~api_keys[reply.key].is_active
        THEN ~reply.ok /\ reply.error = "API key is inactive"
        ELSE IF UsedToday(reply.key) >= DailyLimit(reply.key)
        THEN ~reply.ok /\ reply.error = "Daily request limit exceeded"
        ELSE reply.ok /\ reply.error = None /\ reply.data = api_keys[reply.key]

\* an inactive key whose usage today has reached the limit is told that it
\* is inactive
C4_Witness ==
    /\ reply.op = "validate"
    /\ reply.key \in DOMAIN api_keys
    /\ ~api_keys[reply.key].is_active
    /\ UsedToday(reply.key) >= DailyLimit(reply.key)
    /\ reply.error = "API key is inactive"

TotalIsLedgerSum ==
    \A k \in DOMAIN api_keys :
        api_keys[k].total_requests = LedgerTotal(usage_data, k)

\* a step in which record_usage(k) runs: the manager's call, or an
\* api_extract_json that got as far as recording
RecordsUsage(k) ==
    \/ RecordUsage(k)
    \/ /\ reply'.op = "api_extract" /\ reply'.status = 200
       /\ \E payload \in Payloads, resp \in HandlerResponses :
             ApiExtract(k, payload, resp)

\* C5: every key's total_requests is the sum over all days of its ledger
\* entries, and each record_usage raises the key's total_requests and its
\* entry for the current day by exactly one.
C5_TotalMatchesLedger ==
    /\ []TotalIsLedgerSum
    /\ [][\A k \in Keys :
            RecordsUsage(k) =>
                /\ api_keys'[k].total_requests = api_keys[k].total_requests + 1
                /\ UsageCount(usage_data', today, k) = UsedToday(k) + 1]_vars

\* a key that has just been used, with usage on two different days
C5_Witness ==
    /\ reply.op = "record_usage"
    /\ today > 0
    /\ UsageCount(usage_data, today - 1, reply.key) > 0
    /\ UsedToday(reply.key) > 0
    /\ api_keys[reply.key].total_requests
          = UsageCount(usage_data, today - 1, reply.key) + UsedToday(reply.key)

\* whether api_extract_json turns the key away before looking at the body
GateRejects(api_key) ==
    \/ api_key = NoKey
    \/ ~validate_api_key(api_keys, usage_data, today, api_key).ok

\* C9: api_get_stats is answered 401 exactly when api_extract_json would
\* turn the same key away (missing, unknown, inactive, at its daily quota).
C9_StatsSameGateAsExtract ==
    reply.op = "api_stats" => ((reply.status = 401) <=> GateRejects(reply.key))

\* C9 as amended: api_get_stats is answered 401 exactly when the key is
\* missing or unknown; a known key gets its stats with status 200 also when
\* it is inactive or at its quota, so every key api_get_stats turns away
\* api_extract_json turns away too, and not the other way round.
C9_StatsGateIsKnownKey ==
    reply.op = "api_stats" =>
        /\ (reply.status = 401)
              <=> (reply.key = NoKey \/ reply.key \notin DOMAIN api_keys)
        /\ reply.status = 401 => GateRejects(reply.key)
        /\ reply.status # 401 =>
              /\ reply.status = 200
              /\ reply.data.today_usage = UsedToday(reply.key)
              /\ reply.data.total_requests = api_keys[reply.key].total_requests

\* stats handed to a key that api_extract_json would turn away
C9_Witness ==
    /\ reply.op = "api_stats"
    /\ reply.status = 200
    /\ GateRejects(reply.key)

CountersUnchanged ==
    /\ DOMAIN api_keys' = DOMAIN api_keys
    /\ \A k \in PresentedKeys :
          /\ \A d \in 0..MaxDay :
                UsageCount(usage_data', d, k) = UsageCount(usage_data, d, k)
          /\ k \in DOMAIN api_keys =>
                /\ api_keys'[k].total_requests = api_keys[k].total_requests
                /\ api_keys'[k].last_used = api_keys[k].last_used

\* a step of validate, get_key_stats, api_get_stats, public_extract_json, or
\* of an api_extract_json that is turned away
NonRecordingStep ==
    \/ \E k \in PresentedKeys : Validate(k)
    \/ \E k \in PresentedKeys : KeyStats(k)
    \/ \E k \in PresentedKeys : ApiStats(k)
    \/ /\ reply'.op = "public_extract"
       /\ \E payload \in Payloads, resp \in HandlerResponses :
             PublicExtract(payload, resp)
    \/ /\ reply'.op = "api_extract" /\ reply'.status # 200
       /\ \E k \in PresentedKeys, payload \in Payloads, resp \in HandlerResponses :
             ApiExtract(k, payload, resp)

\* C10: validate (passing or not), the stats calls, public_extract_json and
\* a request turned away leave every key's count for every day (an absent
\* entry counting as 0), its total_requests and its last_used unchanged.
C10_OnlyRecordUsageCounts ==
    [][NonRecordingStep => CountersUnchanged]_vars

\* a request turned away at the quota, the count left at the limit
C10_Witness ==
    /\ reply.op = "api_extract"
    /\ reply.status = 401
    /\ reply.error = "Daily request limit exceeded"
    /\ today \in DOMAIN usage_data
    /\ reply.key \in DOMAIN usage_data[today]
    /\ UsedToday(reply.key) = DailyLimit(reply.key)

\* ------------------------------------------------------------------------
\* Properties of the requests under the threaded server
\* ------------------------------------------------------------------------

HasUrl(r) == r.payload.has_data /\ r.payload.url # NoUrl

\* the requests that passed validate with the key and are not counted yet
InFlight(api_key) ==
    {t \in Threads :
        /\ req[t].api_key = api_key
        /\ req[t].is_valid
        /\ HasUrl(req[t])
        /\ req[t].pc \in {"extract", "record", "store_usage"}}

\* C2: under any interleaving of requests with the same key on one day, no
\* more than the daily limit of them pass validate, and the key's count
\* for the day never exceeds the daily limit.
C2_QuotaHoldsUnderConcurrency ==
    today = 0 =>
        \A k \in DOMAIN api_keys :
            /\ UsedToday(k) <= DailyLimit(k)
            /\ UsedToday(k) + Cardinality(InFlight(k)) <= DailyLimit(k)

====
